---- MODULE Spec2Model ----
(***************************************************************************)
(* A model of the Jenkins MCP server's text algorithms (src/utils.py,      *)
(* src/main.py): the error-snippet extractor analyze_log_for_errors and    *)
(* the URL resolver detect_jenkins_instance / extract_job_path_and_build.  *)
(*                                                                         *)
(* Strings are TLA+ strings handled character by character (Len, SubSeq,   *)
(* \o), line and token indices are 0-based as in the Python source, and    *)
(* each loop of the source is one action per iteration.                    *)
(***************************************************************************)
EXTENDS Integers, Sequences, FiniteSets, TLC

VARIABLES
    \* ---- analyze_log_for_errors ----
    console_log,      \* the argument: the raw console text
    context_window,   \* the argument: lines of context on each side
    lines,            \* console_log.splitlines()
    i,                \* the loop index of `for i, line in enumerate(lines)`
    found_indices,    \* the set of line indices already put in a snippet
    snippets,         \* the list of snippet strings built so far
    spans,            \* history: start_index, end_index and trigger index of each snippet
    pc,               \* "idle", "start", "scan", "done"
    \* ---- detect_jenkins_instance / extract_job_path_and_build ----
    job_url,          \* the argument: the job URL
    configs,          \* the registry: its base URLs (the dict's keys) in iteration order
    config_of,        \* the registry's values: <<user, api_token>> of each entry of configs
    jenkins_base_url, \* the base URL detect_jenkins_instance returned
    parts,            \* path.split('/')
    cur,              \* the loop index i of the token walk
    job_parts,        \* the list of job-path segments
    build_number,     \* the build identifier found so far
    consumed,         \* history: token indices consumed as a (job, name) pair
    outcome,          \* "none", "ok" or the error raised
    result,           \* the returned <<job_path, build_number>>, or <<>>
    rpc,              \* "idle", "load", "detect", "split", "walk", "done"
    \* ---- load_jenkins_configurations ----
    environ,          \* os.environ: a function from variable names to values
    instance_order,   \* history: the order in which the set instance_names was iterated
    \* ---- extract_git_repositories ----
    git_log,          \* the argument: the raw console text
    git_lines,        \* console_log.splitlines()
    gi,               \* the loop index i of `for i, line in enumerate(lines)`
    gm,               \* how many matches of line i the two inner loops have been through
    seen_urls,        \* the set of URLs already recorded
    repositories,     \* the list of records built so far
    accepted,         \* history: line, pattern and position of the match behind each record
    dropped,          \* history: the matches skipped because their URL was seen, as [url, line]
    gpc,              \* "idle", "start", "scan", "done"
    \* ---- main.py: configuration, get_jenkins_credentials and the four tools ----
    JENKINS_URL,      \* the module's value, <<>> before the module is loaded
    JENKINS_USER,     \* the module's value: <<>> for None, else <<string>>
    JENKINS_API_TOKEN, \* the module's value: <<>> for None, else <<string>>
    MAX_LOG_SIZE,     \* the module's value, 0 before the module is loaded
    CONTEXT_WINDOW,   \* the module's value, 0 before the module is loaded
    tool,             \* the tool called, "" when none
    arguments,        \* its arguments: [job_name, build_number]
    credentials,      \* what get_jenkins_credentials returned to the tool: <<>> for None
    requests,         \* the HTTP requests sent so far: [url, auth]
    tool_outcome,     \* "none", "returned" or the error raised
    tool_result,      \* what the tool returned, as a record of the parts of its text; <<>> when none
    tpc               \* "idle", "import", "ready", "awaiting", "done"

snipVars == <<console_log, context_window, lines, i, found_indices, snippets, spans, pc>>
urlVars == <<job_url, configs, config_of, jenkins_base_url, parts, cur, job_parts, build_number,
             consumed, outcome, result, rpc>>
loadVars == <<environ, instance_order>>
gitVars == <<git_log, git_lines, gi, gm, seen_urls, repositories, accepted, dropped, gpc>>
toolVars == <<JENKINS_URL, JENKINS_USER, JENKINS_API_TOKEN, MAX_LOG_SIZE, CONTEXT_WINDOW, tool, arguments, credentials, requests,
              tool_outcome, tool_result, tpc>>
restVars == <<loadVars, gitVars, toolVars>>
vars == <<snipVars, urlVars, restVars>>

----------------------------------------------------------------------------
(* Bounds of the model *)

MaxLines == 6
MaxWindow == 5
MaxInstances == 2
MaxTokens == 5
MaxNamed == 2

----------------------------------------------------------------------------
(* Python string primitives *)

Max(a, b) == IF a >= b THEN a ELSE b
Min(a, b) == IF a <= b THEN a ELSE b

CharAt(s, k) == SubSeq(s, k, k)

UpperChars == "ABCDEFGHIJKLMNOPQRSTUVWXYZ"
LowerChars == "abcdefghijklmnopqrstuvwxyz"

\* The ASCII part of str.lower(), as a table from each upper-case letter.
LowerTable ==
    [c \in {CharAt(UpperChars, k) : k \in 1..Len(UpperChars)} |->
        CharAt(LowerChars, CHOOSE k \in 1..Len(UpperChars) : CharAt(UpperChars, k) = c)]

LowerChar(c) == IF c \in DOMAIN LowerTable THEN LowerTable[c] ELSE c

RECURSIVE Lower(_)
Lower(s) == IF s = "" THEN "" ELSE LowerChar(CharAt(s, 1)) \o Lower(Tail(s))

\* sub in s
Contains(s, sub) ==
    \E k \in 1..(Len(s) - Len(sub) + 1) : SubSeq(s, k, k + Len(sub) - 1) = sub

StartsWith(s, p) == Len(p) <= Len(s) /\ SubSeq(s, 1, Len(p)) = p

\* sep.join(seq)
RECURSIVE Join(_, _)
Join(seq, sep) ==
    IF seq = <<>> THEN ""
    ELSE IF Len(seq) = 1 THEN seq[1]
    ELSE seq[1] \o sep \o Join(Tail(seq), sep)

\* The index of the first line boundary of s, 0 if there is none.
FirstBreak(s) ==
    LET at == {k \in 1..Len(s) : CharAt(s, k) \in {"\n", "\r", "\f"}}
    IN  IF at = {} THEN 0 ELSE CHOOSE k \in at : \A m \in at : k <= m

\* s.splitlines(): "\r\n" is one boundary; no empty last line after a final boundary.
RECURSIVE SplitLines(_)
SplitLines(s) ==
    IF s = "" THEN <<>>
    ELSE LET k == FirstBreak(s) IN
         IF k = 0 THEN <<s>>
         ELSE LET w == IF CharAt(s, k) = "\r" /\ k < Len(s) /\ CharAt(s, k + 1) = "\n"
                       THEN 2 ELSE 1
              IN  <<SubSeq(s, 1, k - 1)>> \o SplitLines(SubSeq(s, k + w, Len(s)))

----------------------------------------------------------------------------
(* analyze_log_for_errors *)

error_keywords == <<"error", "exception", "failed", "failure", "traceback", "fatal">>

\* Mutant: the keyword test without line.lower().
HasKeywordCaseSensitive(line) ==
    \E k \in 1..Len(error_keywords) : Contains(line, error_keywords[k])

\* any(keyword in line.lower() for keyword in error_keywords)
HasKeyword(line) ==
    \E k \in 1..Len(error_keywords) : Contains(Lower(line), error_keywords[k])

\* Mutant: the context starts one line late.
StartIndexLate(idx, w) == Max(0, idx - w + 1)

\* start_index = max(0, i - context_window)
StartIndex(idx, w) == Max(0, idx - w)

\* Mutant: the context ends one line early.
EndIndexEarly(idx, w, n) == Min(n, idx + w)

\* end_index = min(len(lines), i + context_window + 1)
EndIndex(idx, w, n) == Min(n, idx + w + 1)

\* "\n".join(lines[start_index:end_index])
Context(ls, s, e) == Join(SubSeq(ls, s + 1, e), "\n")

\* The logs the extractor is run on. A palette is the keyword line, the plain
\* line, the line boundary and the end of the text; a log has up to MaxLines
\* lines, each the palette's keyword line or its plain line.
Palettes ==
    { <<"ERROR: x", "Line 1", "\n", "">>,
      <<"Exception in y", "erro r", "\n", "\n">>,
      <<"Build FAILED", "", "\n", "">>,
      <<"FaIlUrE: z", "fail ed", "\r\n", "\r\n">>,
      <<"Traceback (most", "Line 1", "\r\n", "">>,
      <<"fatal: bad", "fata l", "\n", "\n">>,
      <<"an error", "ok", "\r", "">> }

LogOf(n, trig, p) == Join([k \in 1..n |-> IF k \in trig THEN p[1] ELSE p[2]], p[3]) \o p[4]

LogTexts ==
    UNION { { LogOf(n, trig, p) : trig \in SUBSET (1..n), p \in Palettes } : n \in 0..MaxLines }

LoadIdle == environ = <<>> /\ instance_order = <<>>

GitIdle ==
    /\ git_log = "" /\ git_lines = <<>> /\ gi = 0 /\ gm = 0 /\ seen_urls = {}
    /\ repositories = <<>> /\ accepted = <<>> /\ dropped = {} /\ gpc = "idle"

ToolIdle ==
    /\ JENKINS_URL = <<>> /\ JENKINS_USER = <<>> /\ JENKINS_API_TOKEN = <<>>
    /\ MAX_LOG_SIZE = 0 /\ CONTEXT_WINDOW = 0 /\ tool = ""
    /\ arguments = <<>> /\ credentials = <<>> /\ requests = <<>> /\ tool_outcome = "none"
    /\ tool_result = <<>> /\ tpc = "idle"

RestIdle == LoadIdle /\ GitIdle /\ ToolIdle

UrlIdle ==
    /\ job_url = "" /\ configs = <<>> /\ config_of = <<>> /\ jenkins_base_url = "" /\ parts = <<>>
    /\ cur = 0 /\ job_parts = <<>> /\ build_number = "" /\ consumed = {}
    /\ outcome = "none" /\ result = <<>> /\ rpc = "idle"

InitSnippets ==
    /\ console_log \in LogTexts
    /\ context_window \in 0..MaxWindow
    /\ lines = <<>>
    /\ i = 0
    /\ found_indices = {}
    /\ snippets = <<>>
    /\ spans = <<>>
    /\ pc = "start"
    /\ UrlIdle
    /\ RestIdle

\* snippets = []; lines = console_log.splitlines(); found_indices = set()
SplitLog ==
    /\ pc = "start"
    /\ lines' = SplitLines(console_log)
    /\ i' = 0
    /\ found_indices' = {}
    /\ snippets' = <<>>
    /\ spans' = <<>>
    /\ pc' = "scan"
    /\ UNCHANGED <<console_log, context_window, urlVars, restVars>>

\* if i in found_indices: continue
ScanSkip ==
    /\ pc = "scan"
    /\ i < Len(lines)
    /\ i \in found_indices
    /\ i' = i + 1
    /\ UNCHANGED <<console_log, context_window, lines, found_indices, snippets, spans,
                   pc, urlVars, restVars>>

\* Mutant: only the trigger line is marked as found.
ScanEmitMarksTrigger ==
    /\ pc = "scan"
    /\ i < Len(lines)
    /\ i \notin found_indices
    /\ HasKeyword(lines[i + 1])
    /\ LET start_index == StartIndex(i, context_window)
           end_index == EndIndex(i, context_window, Len(lines))
       IN  /\ snippets' = Append(snippets, Context(lines, start_index, end_index))
           /\ spans' = Append(spans, [start |-> start_index, end |-> end_index, at |-> i])
           /\ found_indices' = found_indices \cup {i}
    /\ i' = i + 1
    /\ UNCHANGED <<console_log, context_window, lines, pc, urlVars, restVars>>

\* Mutant: the line after the context is marked as found too.
ScanEmitMarksBeyond ==
    /\ pc = "scan"
    /\ i < Len(lines)
    /\ i \notin found_indices
    /\ HasKeyword(lines[i + 1])
    /\ LET start_index == StartIndex(i, context_window)
           end_index == EndIndex(i, context_window, Len(lines))
       IN  /\ snippets' = Append(snippets, Context(lines, start_index, end_index))
           /\ spans' = Append(spans, [start |-> start_index, end |-> end_index, at |-> i])
           /\ found_indices' = found_indices \cup (start_index..end_index)
    /\ i' = i + 1
    /\ UNCHANGED <<console_log, context_window, lines, pc, urlVars, restVars>>

\* Mutant: only the lines up to the trigger line are marked as found.
ScanEmitMarksHead ==
    /\ pc = "scan"
    /\ i < Len(lines)
    /\ i \notin found_indices
    /\ HasKeyword(lines[i + 1])
    /\ LET start_index == StartIndex(i, context_window)
           end_index == EndIndex(i, context_window, Len(lines))
       IN  /\ snippets' = Append(snippets, Context(lines, start_index, end_index))
           /\ spans' = Append(spans, [start |-> start_index, end |-> end_index, at |-> i])
           /\ found_indices' = found_indices \cup (start_index..i)
    /\ i' = i + 1
    /\ UNCHANGED <<console_log, context_window, lines, pc, urlVars, restVars>>

\* The line has a keyword: append its context and mark the context's lines.
ScanEmit ==
    /\ pc = "scan"
    /\ i < Len(lines)
    /\ i \notin found_indices
    /\ HasKeyword(lines[i + 1])
    /\ LET start_index == StartIndex(i, context_window)
           end_index == EndIndex(i, context_window, Len(lines))
       IN  /\ snippets' = Append(snippets, Context(lines, start_index, end_index))
           /\ spans' = Append(spans, [start |-> start_index, end |-> end_index, at |-> i])
           /\ found_indices' = found_indices \cup (start_index..(end_index - 1))
    /\ i' = i + 1
    /\ UNCHANGED <<console_log, context_window, lines, pc, urlVars, restVars>>

\* The line has no keyword: next line.
ScanPass ==
    /\ pc = "scan"
    /\ i < Len(lines)
    /\ i \notin found_indices
    /\ ~HasKeyword(lines[i + 1])
    /\ i' = i + 1
    /\ UNCHANGED <<console_log, context_window, lines, found_indices, snippets, spans,
                   pc, urlVars, restVars>>

\* return snippets
ScanReturn ==
    /\ pc = "scan"
    /\ i = Len(lines)
    /\ pc' = "done"
    /\ UNCHANGED <<console_log, context_window, lines, i, found_indices, snippets, spans,
                   urlVars, restVars>>

NextSnippets == SplitLog \/ ScanSkip \/ ScanEmit \/ ScanPass \/ ScanReturn

SpecSnippets == InitSnippets /\ [][NextSnippets]_vars

----------------------------------------------------------------------------
(* detect_jenkins_instance and extract_job_path_and_build *)

\* s.lstrip(c)
RECURSIVE LStrip(_, _)
LStrip(s, c) == IF s # "" /\ CharAt(s, 1) = c THEN LStrip(Tail(s), c) ELSE s

\* s.rstrip(c)
RECURSIVE RStrip(_, _)
RStrip(s, c) ==
    IF s # "" /\ CharAt(s, Len(s)) = c THEN RStrip(SubSeq(s, 1, Len(s) - 1), c) ELSE s

\* s.split(c): always at least one part, empty parts kept.
RECURSIVE Split(_, _)
Split(s, c) ==
    LET at == {k \in 1..Len(s) : CharAt(s, k) = c}
    IN  IF at = {} THEN <<s>>
        ELSE LET k == CHOOSE m \in at : \A q \in at : m <= q
             IN  <<SubSeq(s, 1, k - 1)>> \o Split(SubSeq(s, k + 1, Len(s)), c)

\* s.isdigit(), on ASCII text
IsDigit(s) == s # "" /\ \A k \in 1..Len(s) : CharAt(s, k) \in
                  {"0", "1", "2", "3", "4", "5", "6", "7", "8", "9"}

build_aliases == {"lastBuild", "lastSuccessfulBuild", "lastFailedBuild", "lastCompletedBuild"}

\* Mutant: the longest matching base URL wins, the first of them on a tie.
FirstMatchLongest(url, cfgs) ==
    LET hits == {k \in 1..Len(cfgs) : StartsWith(url, cfgs[k])}
    IN  IF hits = {} THEN 0
        ELSE CHOOSE k \in hits :
                \A m \in hits : \/ Len(cfgs[m]) < Len(cfgs[k])
                                 \/ (Len(cfgs[m]) = Len(cfgs[k]) /\ k <= m)

\* The index in cfgs of the first base URL that job_url starts with, 0 if none:
\* for jenkins_url, config in configs.items(): if job_url.startswith(jenkins_url)
FirstMatch(url, cfgs) ==
    LET hits == {k \in 1..Len(cfgs) : StartsWith(url, cfgs[k])}
    IN  IF hits = {} THEN 0 ELSE CHOOSE k \in hits : \A m \in hits : k <= m

\* Mutant: the URL format is tested before the registry.
DetectOutcomeFormatFirst(url, cfgs) ==
    IF ~(StartsWith(url, "http://") \/ StartsWith(url, "https://")) THEN "InvalidUrlFormat"
    ELSE IF cfgs = <<>> THEN "NoInstancesConfigured"
    ELSE IF FirstMatch(url, cfgs) = 0 THEN "NoMatchingInstance"
    ELSE "matched"

\* The error detect_jenkins_instance raises, or "matched".
DetectOutcome(url, cfgs) ==
    IF cfgs = <<>> THEN "NoInstancesConfigured"
    ELSE IF ~(StartsWith(url, "http://") \/ StartsWith(url, "https://")) THEN "InvalidUrlFormat"
    ELSE IF FirstMatch(url, cfgs) = 0 THEN "NoMatchingInstance"
    ELSE "matched"

\* The configured base URLs (JenkinsConfig keeps no trailing slash).
BaseUrls == { RStrip(u, "/") : u \in {"https://ci.example.com/",
                                       "https://ci.example.com/team-a",
                                       "http://old.example.org"} }

\* The registries: up to MaxInstances distinct base URLs, in insertion order.
Registries ==
    UNION { { r \in [1..n -> BaseUrls] : \A a, b \in 1..n : a # b => r[a] # r[b] } :
            n \in 0..MaxInstances }

\* What a job URL starts with: a configured base URL or something else.
UrlHeads == BaseUrls \cup {"ftp://x", "ci.example.com", "https://ci.example.com.other.org",
                           "https://new.example.org"}

PathTokens == {"job", "App", "12", "lastFailedBuild", "consoleText", ""}

\* The paths of up to MaxTokens tokens, each with its leading slash.
Paths ==
    {""} \cup UNION { { "/" \o Join(t, "/") : t \in [1..n -> PathTokens] } : n \in 1..MaxTokens }

\* The job URLs of the specification's examples.
ExampleUrls == {"https://ci.example.com/job/Team/job/App/123",
                "https://ci.example.com/job/App/lastSuccessfulBuild/consoleText",
                "ftp://x/job/A/1"}

\* The calls: every registry with every head and a short path, the main
\* registry with every path, and the examples.
ResolveInputs ==
    { <<r, h \o q>> : r \in Registries, h \in UrlHeads,
                      q \in {"", "/", "/job/App", "/job/App/12/consoleText"} }
    \cup { <<r, "https://ci.example.com" \o q>> :
              r \in {<<"https://ci.example.com">>}, q \in Paths }
    \cup { <<r, u>> : r \in {<<"https://ci.example.com">>, <<>>}, u \in ExampleUrls }

\* JenkinsConfig.get_credentials() of the k-th configured instance.
CredentialsOf(k) == <<"user" \o ToString(k), "token" \o ToString(k)>>

SnippetsIdle ==
    /\ console_log = "" /\ context_window = 0 /\ lines = <<>> /\ i = 0
    /\ found_indices = {} /\ snippets = <<>> /\ spans = <<>> /\ pc = "idle"

InitResolve ==
    /\ \E inp \in ResolveInputs : configs = inp[1] /\ job_url = inp[2]
    /\ config_of = [k \in 1..Len(configs) |-> CredentialsOf(k)]
    /\ jenkins_base_url = ""
    /\ parts = <<>>
    /\ cur = 0
    /\ job_parts = <<>>
    /\ build_number = ""
    /\ consumed = {}
    /\ outcome = "none"
    /\ result = <<>>
    /\ rpc = "detect"
    /\ SnippetsIdle
    /\ RestIdle

\* detect_jenkins_instance: raise, or return the first matching base URL.
Detect ==
    /\ rpc = "detect"
    /\ LET o == DetectOutcome(job_url, configs)
       IN  IF o = "matched"
           THEN /\ jenkins_base_url' = configs[FirstMatch(job_url, configs)]
                /\ rpc' = "split"
                /\ UNCHANGED outcome
           ELSE /\ outcome' = o
                /\ rpc' = "done"
                /\ UNCHANGED jenkins_base_url
    /\ UNCHANGED <<job_url, configs, config_of, parts, cur, job_parts, build_number, consumed, result,
                   snipVars, restVars>>

\* path = job_url[len(jenkins_base_url):].lstrip('/'); parts = path.split('/')
SplitPath ==
    /\ rpc = "split"
    /\ parts' = Split(LStrip(SubSeq(job_url, Len(jenkins_base_url) + 1, Len(job_url)), "/"), "/")
    /\ job_parts' = <<>>
    /\ build_number' = "lastBuild"
    /\ cur' = 0
    /\ rpc' = "walk"
    /\ UNCHANGED <<job_url, configs, config_of, jenkins_base_url, consumed, outcome, result, snipVars, restVars>>

\* Mutant: the cursor advances by one token after a (job, name) pair.
WalkJobByOne ==
    /\ rpc = "walk"
    /\ cur < Len(parts)
    /\ parts[cur + 1] = "job" /\ cur + 1 < Len(parts)
    /\ job_parts' = Append(job_parts, parts[cur + 2])
    /\ consumed' = consumed \cup {cur, cur + 1}
    /\ cur' = cur + 1
    /\ UNCHANGED <<job_url, configs, config_of, jenkins_base_url, parts, build_number, outcome, result,
                   rpc, snipVars, restVars>>

\* if parts[i] == "job" and i + 1 < len(parts): the next token is a job name.
WalkJob ==
    /\ rpc = "walk"
    /\ cur < Len(parts)
    /\ parts[cur + 1] = "job" /\ cur + 1 < Len(parts)
    /\ job_parts' = Append(job_parts, parts[cur + 2])
    /\ consumed' = consumed \cup {cur, cur + 1}
    /\ cur' = cur + 2
    /\ UNCHANGED <<job_url, configs, config_of, jenkins_base_url, parts, build_number, outcome, result,
                   rpc, snipVars, restVars>>

\* Mutant: the first build token wins.
WalkBuildFirstWins ==
    /\ rpc = "walk"
    /\ cur < Len(parts)
    /\ ~(parts[cur + 1] = "job" /\ cur + 1 < Len(parts))
    /\ parts[cur + 1] # "" /\ parts[cur + 1] \notin {"consoleText", "api", ""}
    /\ build_number' =
          IF (IsDigit(parts[cur + 1]) \/ parts[cur + 1] \in build_aliases)
             /\ build_number = "lastBuild"
          THEN parts[cur + 1] ELSE build_number
    /\ cur' = cur + 1
    /\ UNCHANGED <<job_url, configs, config_of, jenkins_base_url, parts, job_parts, consumed, outcome,
                   result, rpc, snipVars, restVars>>

\* elif parts[i] and parts[i] not in ("consoleText", "api", ""): a build number
\* or a build alias replaces build_number.
WalkBuild ==
    /\ rpc = "walk"
    /\ cur < Len(parts)
    /\ ~(parts[cur + 1] = "job" /\ cur + 1 < Len(parts))
    /\ parts[cur + 1] # "" /\ parts[cur + 1] \notin {"consoleText", "api", ""}
    /\ build_number' =
          IF IsDigit(parts[cur + 1]) \/ parts[cur + 1] \in build_aliases
          THEN parts[cur + 1] ELSE build_number
    /\ cur' = cur + 1
    /\ UNCHANGED <<job_url, configs, config_of, jenkins_base_url, parts, job_parts, consumed, outcome,
                   result, rpc, snipVars, restVars>>

\* else: i += 1
WalkOther ==
    /\ rpc = "walk"
    /\ cur < Len(parts)
    /\ ~(parts[cur + 1] = "job" /\ cur + 1 < Len(parts))
    /\ ~(parts[cur + 1] # "" /\ parts[cur + 1] \notin {"consoleText", "api", ""})
    /\ cur' = cur + 1
    /\ UNCHANGED <<job_url, configs, config_of, jenkins_base_url, parts, job_parts, build_number,
                   consumed, outcome, result, rpc, snipVars, restVars>>

\* Mutant: the error is raised when the joined job path is empty.
FinishOnEmptyPath ==
    /\ rpc = "walk"
    /\ cur >= Len(parts)
    /\ IF Join(job_parts, "/job/") = ""
       THEN outcome' = "JobPathNotFound" /\ result' = <<>>
       ELSE outcome' = "ok" /\ result' = <<Join(job_parts, "/job/"), build_number>>
    /\ rpc' = "done"
    /\ UNCHANGED <<job_url, configs, config_of, jenkins_base_url, parts, cur, job_parts, build_number,
                   consumed, snipVars, restVars>>

\* if not job_parts: raise; return "/job/".join(job_parts), build_number
Finish ==
    /\ rpc = "walk"
    /\ cur >= Len(parts)
    /\ IF job_parts = <<>>
       THEN outcome' = "JobPathNotFound" /\ result' = <<>>
       ELSE outcome' = "ok" /\ result' = <<Join(job_parts, "/job/"), build_number>>
    /\ rpc' = "done"
    /\ UNCHANGED <<job_url, configs, config_of, jenkins_base_url, parts, cur, job_parts, build_number,
                   consumed, snipVars, restVars>>

NextResolve == Detect \/ SplitPath \/ WalkJob \/ WalkBuild \/ WalkOther \/ Finish

SpecResolve == InitResolve /\ [][NextResolve]_vars

----------------------------------------------------------------------------
(* load_jenkins_configurations *)

EndsWith(s, q) == Len(q) <= Len(s) /\ SubSeq(s, Len(s) - Len(q) + 1, Len(s)) = q

\* os.getenv(key): a variable that is not set and an empty one are both falsy.
GetEnv(env, key) == IF key \in DOMAIN env THEN env[key] ELSE ""

\* "_".join(parts[1:-1]) of key.split("_")
InstanceNameOf(key) ==
    LET ps == Split(key, "_") IN Join(SubSeq(ps, 2, Len(ps) - 1), "_")

\* The set instance_names the scan of os.environ builds.
InstanceNames(env) ==
    { InstanceNameOf(key) :
        key \in { k \in DOMAIN env :
                    /\ StartsWith(k, "JENKINS_") /\ EndsWith(k, "_URL")
                    /\ Len(Split(k, "_")) >= 3
                    /\ InstanceNameOf(k) # "" /\ InstanceNameOf(k) # "URL" } }

\* configs[key] = value on a dict kept as its keys and its values in insertion
\* order: a key that is present keeps its place and takes the new value.
DictSet(d, key, value) ==
    IF \E k \in 1..Len(d.keys) : d.keys[k] = key
    THEN [d EXCEPT !.vals = [k \in 1..Len(d.keys) |->
                                IF d.keys[k] = key THEN value ELSE d.vals[k]]]
    ELSE [keys |-> Append(d.keys, key), vals |-> Append(d.vals, value)]

\* The instance an URL, USER and API_TOKEN triple configures, if it is complete.
AddInstance(d, url, user, token) ==
    IF url # "" /\ user # "" /\ token # ""
    THEN DictSet(d, RStrip(url, "/"), <<user, token>>)
    ELSE d

\* The default instance, then the named instances in the order `order`.
RECURSIVE LoadNamed(_, _, _)
LoadNamed(env, order, d) ==
    IF order = <<>> THEN d
    ELSE LoadNamed(env, Tail(order),
                   AddInstance(d, GetEnv(env, "JENKINS_" \o order[1] \o "_URL"),
                                  GetEnv(env, "JENKINS_" \o order[1] \o "_USER"),
                                  GetEnv(env, "JENKINS_" \o order[1] \o "_API_TOKEN")))

LoadResult(env, order) ==
    LoadNamed(env, order,
              AddInstance([keys |-> <<>>, vals |-> <<>>], GetEnv(env, "JENKINS_URL"),
                          GetEnv(env, "JENKINS_USER"), GetEnv(env, "JENKINS_API_TOKEN")))

\* The orders in which iterating the set S can yield its elements.
Orders(S) ==
    { o \in [1..Cardinality(S) -> S] : \A a, b \in 1..Cardinality(S) : a # b => o[a] # o[b] }

\* The environments: the default instance and up to MaxNamed named instances,
\* each absent, complete or without its token.
NamedName(k) == IF k % 2 = 1 THEN "N" \o ToString(k) ELSE "TEAM_" \o ToString(k)

NamedChoices(k) ==
    {<<>>}
    \cup { ("JENKINS_" \o NamedName(k) \o "_URL" :> u)
           @@ ("JENKINS_" \o NamedName(k) \o "_USER" :> "user" \o ToString(k))
           @@ ("JENKINS_" \o NamedName(k) \o "_API_TOKEN" :> "token" \o ToString(k)) :
           u \in {"https://ci.example.com", "https://ci.example.com/team-a/"} }
    \cup { ("JENKINS_" \o NamedName(k) \o "_URL" :> "http://old.example.org")
           @@ ("JENKINS_" \o NamedName(k) \o "_USER" :> "user" \o ToString(k)) }

DefaultChoices ==
    { ("JENKINS_VERIFY_SSL" :> "true"),
      ("JENKINS_URL" :> "http://old.example.org/") @@ ("JENKINS_USER" :> "user0")
          @@ ("JENKINS_API_TOKEN" :> "token0"),
      ("JENKINS_URL" :> "https://ci.example.com") @@ ("JENKINS_USER" :> "user0")
          @@ ("JENKINS_API_TOKEN" :> "") @@ ("JENKINS_URL_URL" :> "http://x") }

RECURSIVE EnvironsUpTo(_)
EnvironsUpTo(k) ==
    IF k = 0 THEN DefaultChoices
    ELSE { e @@ c : e \in EnvironsUpTo(k - 1), c \in NamedChoices(k) }

Environs == EnvironsUpTo(MaxNamed)

LoadJobUrls == {"https://ci.example.com/team-a/job/App/12/consoleText",
                "https://ci.example.com/job/App", "http://old.example.org/job/App/",
                "ci.example.com/job/App"}

InitLoad ==
    /\ environ \in Environs
    /\ instance_order = <<>>
    /\ job_url \in LoadJobUrls
    /\ configs = <<>>
    /\ config_of = <<>>
    /\ jenkins_base_url = ""
    /\ parts = <<>>
    /\ cur = 0
    /\ job_parts = <<>>
    /\ build_number = ""
    /\ consumed = {}
    /\ outcome = "none"
    /\ result = <<>>
    /\ rpc = "load"
    /\ SnippetsIdle
    /\ GitIdle
    /\ ToolIdle

\* load_jenkins_configurations: `for instance_name in instance_names` iterates
\* a set of strings, whose order is not defined (it follows the strings' hashes,
\* which differ from one process to the next).
LoadConfigs ==
    /\ rpc = "load"
    /\ \E order \in Orders(InstanceNames(environ)) :
          /\ instance_order' = order
          /\ configs' = LoadResult(environ, order).keys
          /\ config_of' = LoadResult(environ, order).vals
    /\ rpc' = "detect"
    /\ UNCHANGED <<job_url, jenkins_base_url, parts, cur, job_parts, build_number, consumed,
                   outcome, result, environ, snipVars, gitVars, toolVars>>

NextLoad == LoadConfigs \/ Detect \/ SplitPath \/ WalkJob \/ WalkBuild \/ WalkOther \/ Finish

SpecLoad == InitLoad /\ [][NextLoad]_vars

----------------------------------------------------------------------------
(* Regular expressions as Python's re module matches them *)

(* A pattern is a tree: a literal, a character set, a sequence, an          *)
(* alternation, a repetition (greedy or lazy), the capture group 1 or `$`.  *)
(* Matching is by backtracking: Run takes the parts still to match, first   *)
(* to last, and gives the first way they match from a position on, as       *)
(* <<end, group start, group end>> with end the index after the match, or   *)
(* <<>> when there is none. ic is re.IGNORECASE.                            *)
Lit(str) == [t |-> "lit", s |-> str]
Set(cs) == [t |-> "set", chars |-> cs, neg |-> FALSE]
NotSet(cs) == [t |-> "set", chars |-> cs, neg |-> TRUE]
Cat(rs) == [t |-> "seq", xs |-> rs]
Alt(rs) == [t |-> "alt", xs |-> rs]
Rep(r, lo, hi, lz) == [t |-> "rep", x |-> r, min |-> lo, max |-> hi, lazy |-> lz]
Grp(r) == [t |-> "grp", x |-> r]
Eol == [t |-> "eol"]
GroupStart == [t |-> "gs"]
GroupEnd == [t |-> "ge"]

Unbounded == -1
Opt(r) == Rep(r, 0, 1, FALSE)
Star(r) == Rep(r, 0, Unbounded, FALSE)
Plus(r) == Rep(r, 1, Unbounded, FALSE)
LazyPlus(r) == Rep(r, 1, Unbounded, TRUE)

\* \s
Whitespace == {" ", "\t", "\n", "\r", "\f"}

InSet(c, r, ic) ==
    LET in == c \in r.chars \/ (ic /\ LowerChar(c) \in r.chars)
    IN  IF r.neg THEN ~in ELSE in

Least(S) == CHOOSE x \in S : \A y \in S : x <= y
Greatest(S) == CHOOSE x \in S : \A y \in S : x >= y

\* The index after the longest run of at most hi characters of the set r from pos on.
RunEnd(r, s, pos, hi, ic) ==
    Greatest({e \in pos..(IF hi = Unbounded THEN Len(s) + 1 ELSE Min(Len(s) + 1, pos + hi)) :
                 \A q \in pos..(e - 1) : InSet(CharAt(s, q), r, ic)})

RECURSIVE Run(_, _, _, _, _)
RECURSIVE RunAlt(_, _, _, _, _, _, _)

Run(todo, s, pos, g, ic) ==
    IF todo = <<>> THEN <<pos, g[1], g[2]>>
    ELSE LET r == Head(todo)
             rest == Tail(todo)
         IN  CASE r.t = "lit" ->
                     IF pos + Len(r.s) - 1 <= Len(s)
                        /\ (IF ic THEN Lower(SubSeq(s, pos, pos + Len(r.s) - 1)) = Lower(r.s)
                                  ELSE SubSeq(s, pos, pos + Len(r.s) - 1) = r.s)
                     THEN Run(rest, s, pos + Len(r.s), g, ic) ELSE <<>>
               [] r.t = "set" ->
                     IF pos <= Len(s) /\ InSet(CharAt(s, pos), r, ic)
                     THEN Run(rest, s, pos + 1, g, ic) ELSE <<>>
               [] r.t = "eol" -> IF pos = Len(s) + 1 THEN Run(rest, s, pos, g, ic) ELSE <<>>
               [] r.t = "gs" -> Run(rest, s, pos, <<pos, 0>>, ic)
               [] r.t = "ge" -> Run(rest, s, pos, <<g[1], pos>>, ic)
               [] r.t = "grp" -> Run(<<GroupStart, r.x, GroupEnd>> \o rest, s, pos, g, ic)
               [] r.t = "seq" -> Run(r.xs \o rest, s, pos, g, ic)
               [] r.t = "alt" -> RunAlt(r.xs, 1, rest, s, pos, g, ic)
               [] r.t = "rep" /\ r.x.t = "set" ->
                     \* a run of single characters: the longest (greedy) or the
                     \* shortest (lazy) run after which the rest matches
                     LET ends == (pos + r.min)..RunEnd(r.x, s, pos, r.max, ic)
                         after == [e \in ends |-> Run(rest, s, e, g, ic)]
                         ok == {e \in ends : after[e] # <<>>}
                     IN  IF ok = {} THEN <<>>
                         ELSE after[IF r.lazy THEN Least(ok) ELSE Greatest(ok)]
               [] r.t = "rep" /\ r.x.t # "set" ->
                     LET more == IF r.max = 0 THEN <<>>
                                 ELSE Run(<<r.x, Rep(r.x, Max(r.min - 1, 0),
                                                     IF r.max = Unbounded THEN Unbounded ELSE r.max - 1,
                                                     r.lazy)>> \o rest, s, pos, g, ic)
                         stop == IF r.min = 0 THEN Run(rest, s, pos, g, ic) ELSE <<>>
                     IN  IF r.lazy THEN (IF stop # <<>> THEN stop ELSE more)
                                   ELSE (IF more # <<>> THEN more ELSE stop)

\* The alternatives from the k-th on, in their order.
RunAlt(xs, k, rest, s, pos, g, ic) ==
    IF k > Len(xs) THEN <<>>
    ELSE LET m == Run(<<xs[k]>> \o rest, s, pos, g, ic)
         IN  IF m # <<>> THEN m ELSE RunAlt(xs, k + 1, rest, s, pos, g, ic)

\* The leftmost start that matches, of the matches at each start.
Leftmost(at) ==
    IF \A p \in DOMAIN at : at[p] = <<>> THEN <<>>
    ELSE LET p == Least({q \in DOMAIN at : at[q] # <<>>})
         IN  <<p, at[p][1], at[p][2], at[p][3]>>

\* re.search(r, s) from index `from` on: the leftmost start that matches, with
\* the first way it matches: <<start, end, group start, group end>>, or <<>>.
SearchFrom(r, s, from, ic) ==
    Leftmost([p \in from..(Len(s) + 1) |-> Run(<<r>>, s, p, <<0, 0>>, ic)])

\* re.finditer(r, s): the successive matches, none overlapping the one before.
RECURSIVE FindIter(_, _, _, _)
RECURSIVE FindMore(_, _, _, _)
FindIter(r, s, from, ic) == FindMore(r, s, ic, SearchFrom(r, s, from, ic))

\* The match m and those after it.
FindMore(r, s, ic, m) ==
    IF m = <<>> THEN <<>>
    ELSE <<m>> \o FindIter(r, s, IF m[2] > m[1] THEN m[2] ELSE m[2] + 1, ic)

\* match.group(1)
Group1(s, m) == SubSeq(s, m[3], m[4] - 1)

----------------------------------------------------------------------------
(* extract_git_repositories: the patterns *)

Quote == Set({"\"", "'"})
Space == Set(Whitespace)
NonSpace == NotSet(Whitespace)
\* [^"\'>\s]
UrlChar == NotSet({"\"", "'", ">"} \union Whitespace)
\* [^\s"\'<>]
PathChar == NotSet({"\"", "'", "<", ">"} \union Whitespace)
HexDigit == Set({"0", "1", "2", "3", "4", "5", "6", "7", "8", "9", "a", "b", "c", "d", "e", "f"})
\* ([^"\'>\s]+\.git)
DotGitUrl == Grp(Cat(<<Plus(UrlChar), Lit(".git")>>))
\* (?:-[^\s]+\s+)*
Options == Star(Cat(<<Lit("-"), Plus(NonSpace), Plus(Space)>>))
\* (?:git@|https?://)
Scheme == Alt(<<Lit("git@"), Cat(<<Lit("http"), Opt(Lit("s")), Lit("://")>>)>>)

git_patterns ==
    << Cat(<<Alt(<<Lit("Cloning"), Lit("Fetching"), Lit("Checking out")>>), Plus(Space),
             Opt(Lit("remote ")), Lit("repository"), Plus(Space), Opt(Quote), DotGitUrl, Opt(Quote)>>),
       Cat(<<Lit("git clone"), Plus(Space), Options, Opt(Quote), DotGitUrl, Opt(Quote)>>),
       Cat(<<Lit("git fetch"), Plus(Space), Options, Opt(Quote), DotGitUrl, Opt(Quote)>>),
       Cat(<<Alt(<<Lit("url"), Lit("URL")>>), Lit(":"), Star(Space), DotGitUrl>>),
       Cat(<<Lit("Repository:"), Star(Space), DotGitUrl>>),
       Cat(<<Scheme, LazyPlus(NonSpace),
             Alt(<<Lit("github.com"), Lit("gitlab.com"), Lit("bitbucket.org")>>),
             Set({":", "/"}), Grp(LazyPlus(PathChar)),
             Alt(<<Space, Eol, Lit(".git")>>)>>) >>

branch_pattern ==
    Cat(<<Alt(<<Lit("branch"), Lit("Branch"), Lit("ref")>>), Opt(Set({":", "="})), Star(Space),
          Opt(Quote), Grp(Plus(UrlChar)), Opt(Quote)>>)

MinCommitLen == 7
MaxCommitLen == 40
commit_pattern ==
    Cat(<<Alt(<<Lit("commit"), Lit("Commit"), Lit("revision"), Lit("Revision")>>), Plus(Space),
          Grp(Rep(HexDigit, MinCommitLen, MaxCommitLen, FALSE))>>)

\* r'((?:git@|https?://)[^\s]+?' + re.escape(repo_url) + r')', without IGNORECASE
FullUrlPattern(repo_url) == Grp(Cat(<<Scheme, LazyPlus(NonSpace), Lit(repo_url)>>))

\* if full_match: repo_url = full_match.group(1)
FullUrlOr(line, repo_url, full_match) ==
    IF full_match # <<>> THEN Group1(line, full_match) ELSE repo_url

\* The URL a match stands for: group 1, or for a host-less path with a slash
\* the full URL the line holds in front of it.
NormalizeUrl(line, repo_url) ==
    IF StartsWith(repo_url, "http://") \/ StartsWith(repo_url, "https://") \/ StartsWith(repo_url, "git@")
    THEN repo_url
    ELSE IF Contains(repo_url, "/") /\ ~StartsWith(repo_url, "/")
         THEN FullUrlOr(line, repo_url, SearchFrom(FullUrlPattern(repo_url), line, 1, FALSE))
         ELSE repo_url

\* The matches ms of pattern p with their URLs.
MatchRecords(line, p, ms) ==
    [k \in 1..Len(ms) |-> [url |-> NormalizeUrl(line, Group1(line, ms[k])), pat |-> p, pos |-> ms[k][1]]]

\* The matches of one pattern in a line, left to right.
PatternMatches(line, p) == MatchRecords(line, p, FindIter(git_patterns[p], line, 1, TRUE))

\* The matches of a line in the order the two loops meet them: pattern by
\* pattern, and within a pattern left to right.
RECURSIVE MatchesFrom(_, _)
MatchesFrom(line, p) ==
    IF p > Len(git_patterns) THEN <<>>
    ELSE PatternMatches(line, p) \o MatchesFrom(line, p + 1)

ComputeMatches(line) == MatchesFrom(line, 1)

\* Mutant: no candidate is filtered out.
BranchOfUnfiltered(line, branch_match) ==
    IF branch_match = <<>> THEN <<>> ELSE <<Group1(line, branch_match), TRUE>>

\* The value of a branch match and whether it passes the filter.
BranchOf(line, branch_match) ==
    IF branch_match = <<>> THEN <<>>
    ELSE <<Group1(line, branch_match),
           Group1(line, branch_match) \notin {"true", "false", "master", "main"}
              \/ Contains(Lower(line), "branch")>>

\* branch_match of a line: <<>> or <<value, accepted>>
ComputeBranch(line) == BranchOf(line, SearchFrom(branch_pattern, line, 1, TRUE))

CommitOf(line, commit_match) ==
    IF commit_match = <<>> THEN <<>> ELSE <<Group1(line, commit_match)>>

\* commit_match of a line: <<>> or <<value>>
ComputeCommit(line) == CommitOf(line, SearchFrom(commit_pattern, line, 1, TRUE))

----------------------------------------------------------------------------
(* extract_git_repositories: the scan *)

MaxGitLines == 7
MaxDenseLines == 3

\* context_start = max(0, i - 5); context_end = min(len(lines), i + 6)
ContextBefore == 5
ContextAfter == 6

UrlLines ==
    { "git clone https://h/o/a.git",
      "git fetch -q 'https://h/o/a.git'",
      "Cloning repository https://x.github.com/o/b.git",
      "url: https://h/o/c.git git clone https://h/o/a.git",
      "url: https://h/o/c.git URL: https://h/o/a.git",
      "see git@h:o/d.git Repository: o/d.git" }

BranchLines == {"branch: dev", "ref: main", "ref: main (Branch)", "ref: main ref: dev"}

CommitLines == {"commit 0123abc", "Revision ABCDEF12 ref: rel", "commit 12345"}

PlainLine == "Started"

GitVocabulary == UrlLines \union BranchLines \union CommitLines \union {PlainLine}

\* What the patterns find in each line of the vocabulary, worked out once.
MatchTable == [line \in GitVocabulary |-> ComputeMatches(line)]
BranchTable == [line \in GitVocabulary |-> ComputeBranch(line)]
CommitTable == [line \in GitVocabulary |-> ComputeCommit(line)]

LineMatches(line) == IF line \in GitVocabulary THEN MatchTable[line] ELSE ComputeMatches(line)
BranchMatch(line) == IF line \in GitVocabulary THEN BranchTable[line] ELSE ComputeBranch(line)
CommitMatch(line) == IF line \in GitVocabulary THEN CommitTable[line] ELSE ComputeCommit(line)

\* if repo_info['branch'] is None: take the branch match b of the line, if accepted
WithBranch(repo_info, b) ==
    IF repo_info.branch = <<>> /\ b # <<>> /\ b[2]
    THEN [repo_info EXCEPT !.branch = <<b[1]>>] ELSE repo_info

\* if repo_info['commit'] is None: take the commit match c of the line
WithCommit(repo_info, c) ==
    IF repo_info.commit = <<>> /\ c # <<>> THEN [repo_info EXCEPT !.commit = c] ELSE repo_info

\* for context_line in lines[context_start:context_end]: the first accepted
\* branch and the first commit, each set once.
RECURSIVE Enrich(_, _, _, _)
Enrich(ls, j, context_end, repo_info) ==
    IF j >= context_end THEN repo_info
    ELSE Enrich(ls, j + 1, context_end,
                WithCommit(WithBranch(repo_info, BranchMatch(ls[j + 1])), CommitMatch(ls[j + 1])))

\* Mutant: the whole log is the context.
RepoInfoWholeLog(ls, idx, repo_url) ==
    Enrich(ls, 0, Len(ls), [url |-> repo_url, branch |-> <<>>, commit |-> <<>>])

\* The record of a URL newly met on line idx.
RepoInfo(ls, idx, repo_url) ==
    Enrich(ls, Max(0, idx - ContextBefore), Min(Len(ls), idx + ContextAfter),
           [url |-> repo_url, branch |-> <<>>, commit |-> <<>>])

\* Short logs of any lines of the vocabulary, and longer logs of plain lines
\* with up to three chosen lines placed anywhere.
DenseLogs == UNION { [1..n -> GitVocabulary] : n \in 0..MaxDenseLines }

FirstLines == {"git clone https://h/o/a.git", "Cloning repository https://x.github.com/o/b.git"}
SecondLines == {"git fetch -q 'https://h/o/a.git'", "ref: main", "commit 0123abc"}
ThirdLines == {"branch: dev", "Revision ABCDEF12 ref: rel"}

SparseLog(n, pa, la, pb, lb, pc_, lc) ==
    [k \in 1..n |-> IF k = pa THEN la ELSE IF k = pb THEN lb ELSE IF k = pc_ THEN lc ELSE PlainLine]

SparseLogs ==
    UNION { { SparseLog(n, pa, la, pb, lb, pc_, lc) :
                pa \in 1..n, la \in FirstLines, pb \in 1..n, lb \in SecondLines,
                pc_ \in 1..n, lc \in ThirdLines }
            : n \in (MaxDenseLines + 1)..MaxGitLines }

GitLogTexts == { Join(ls, "\n") : ls \in DenseLogs \union SparseLogs }

InitGit ==
    /\ git_log \in GitLogTexts
    /\ git_lines = <<>>
    /\ gi = 0
    /\ gm = 0
    /\ seen_urls = {}
    /\ repositories = <<>>
    /\ accepted = <<>>
    /\ dropped = {}
    /\ gpc = "start"
    /\ SnippetsIdle
    /\ UrlIdle
    /\ LoadIdle
    /\ ToolIdle

\* repositories = []; seen_urls = set(); lines = console_log.splitlines()
GitSplit ==
    /\ gpc = "start"
    /\ git_lines' = SplitLines(git_log)
    /\ gi' = 0
    /\ gm' = 0
    /\ seen_urls' = {}
    /\ repositories' = <<>>
    /\ accepted' = <<>>
    /\ dropped' = {}
    /\ gpc' = "scan"
    /\ UNCHANGED <<git_log, snipVars, urlVars, loadVars, toolVars>>

\* Mutant: a URL already seen is recorded again.
GitAcceptSeenToo ==
    /\ gpc = "scan"
    /\ gi < Len(git_lines)
    /\ \E matches \in {LineMatches(git_lines[gi + 1])} :
          /\ gm < Len(matches)
          /\ \E match \in {matches[gm + 1]} :
           /\ seen_urls' = seen_urls \cup {match.url}
           /\ repositories' = Append(repositories, RepoInfo(git_lines, gi, match.url))
           /\ accepted' = Append(accepted, [line |-> gi, pat |-> match.pat, pos |-> match.pos])
    /\ gm' = gm + 1
    /\ UNCHANGED <<git_log, git_lines, gi, dropped, gpc, snipVars, urlVars, loadVars, toolVars>>

\* Mutant: the new record is put at the head of the list.
GitAcceptPrepends ==
    /\ gpc = "scan"
    /\ gi < Len(git_lines)
    /\ \E matches \in {LineMatches(git_lines[gi + 1])} :
          /\ gm < Len(matches)
          /\ \E match \in {matches[gm + 1]} :
           /\ match.url \notin seen_urls
           /\ seen_urls' = seen_urls \cup {match.url}
           /\ repositories' = <<RepoInfo(git_lines, gi, match.url)>> \o repositories
           /\ accepted' = <<[line |-> gi, pat |-> match.pat, pos |-> match.pos]>> \o accepted
    /\ gm' = gm + 1
    /\ UNCHANGED <<git_log, git_lines, gi, dropped, gpc, snipVars, urlVars, loadVars, toolVars>>

\* The next match of line i has a URL not seen before: record it with the
\* branch and commit of the lines around line i.
GitAccept ==
    /\ gpc = "scan"
    /\ gi < Len(git_lines)
    /\ \E matches \in {LineMatches(git_lines[gi + 1])} :
          /\ gm < Len(matches)
          /\ \E match \in {matches[gm + 1]} :
           /\ match.url \notin seen_urls
           /\ seen_urls' = seen_urls \cup {match.url}
           /\ repositories' = Append(repositories, RepoInfo(git_lines, gi, match.url))
           /\ accepted' = Append(accepted, [line |-> gi, pat |-> match.pat, pos |-> match.pos])
    /\ gm' = gm + 1
    /\ UNCHANGED <<git_log, git_lines, gi, dropped, gpc, snipVars, urlVars, loadVars, toolVars>>

\* Mutant: a later occurrence fills what the record still lacks.
GitSkipSeenEnriches ==
    /\ gpc = "scan"
    /\ gi < Len(git_lines)
    /\ \E matches \in {LineMatches(git_lines[gi + 1])} :
          /\ gm < Len(matches)
          /\ \E match \in {matches[gm + 1]}, later \in {RepoInfo(git_lines, gi, matches[gm + 1].url)} :
           /\ match.url \in seen_urls
           /\ dropped' = dropped \cup {[url |-> match.url, line |-> gi]}
           /\ repositories' =
                 [k \in 1..Len(repositories) |->
                     IF repositories[k].url # match.url THEN repositories[k]
                     ELSE [url |-> match.url,
                           branch |-> IF repositories[k].branch = <<>> THEN later.branch
                                      ELSE repositories[k].branch,
                           commit |-> IF repositories[k].commit = <<>> THEN later.commit
                                      ELSE repositories[k].commit]]
    /\ gm' = gm + 1
    /\ UNCHANGED <<git_log, git_lines, gi, seen_urls, accepted, gpc,
                   snipVars, urlVars, loadVars, toolVars>>

\* if repo_url in seen_urls: continue
GitSkipSeen ==
    /\ gpc = "scan"
    /\ gi < Len(git_lines)
    /\ \E matches \in {LineMatches(git_lines[gi + 1])} :
          /\ gm < Len(matches)
          /\ \E match \in {matches[gm + 1]} :
           /\ match.url \in seen_urls
           /\ dropped' = dropped \cup {[url |-> match.url, line |-> gi]}
    /\ gm' = gm + 1
    /\ UNCHANGED <<git_log, git_lines, gi, seen_urls, repositories, accepted, gpc,
                   snipVars, urlVars, loadVars, toolVars>>

\* The patterns are through with line i: next line.
GitNextLine ==
    /\ gpc = "scan"
    /\ gi < Len(git_lines)
    /\ gm = Len(LineMatches(git_lines[gi + 1]))
    /\ gi' = gi + 1
    /\ gm' = 0
    /\ UNCHANGED <<git_log, git_lines, seen_urls, repositories, accepted, dropped, gpc,
                   snipVars, urlVars, loadVars, toolVars>>

\* return repositories
GitReturn ==
    /\ gpc = "scan"
    /\ gi = Len(git_lines)
    /\ gpc' = "done"
    /\ UNCHANGED <<git_log, git_lines, gi, gm, seen_urls, repositories, accepted, dropped,
                   snipVars, urlVars, loadVars, toolVars>>

NextGit == GitSplit \/ GitAccept \/ GitSkipSeen \/ GitNextLine \/ GitReturn

SpecGit == InitGit /\ [][NextGit]_vars

----------------------------------------------------------------------------
(* main.py: the configuration, get_jenkins_credentials and the four tools *)

\* os.getenv(key): <<>> for None
GetEnvOrNone(env, key) == IF key \in DOMAIN env THEN <<env[key]>> ELSE <<>>

\* os.getenv(key, default)
GetEnvOr(env, key, default) == IF key \in DOMAIN env THEN env[key] ELSE default

Digits == "0123456789"
DigitValue(c) == CHOOSE d \in 0..9 : CharAt(Digits, d + 1) = c

\* int(s) of a string of digits
RECURSIVE ParseInt(_)
ParseInt(s) ==
    IF Len(s) = 1 THEN DigitValue(s)
    ELSE 10 * ParseInt(SubSeq(s, 1, Len(s) - 1)) + DigitValue(CharAt(s, Len(s)))

\* s.replace(c, by) for a single character c
RECURSIVE Replace(_, _, _)
Replace(s, c, by) ==
    IF s = "" THEN ""
    ELSE (IF CharAt(s, 1) = c THEN by ELSE CharAt(s, 1)) \o Replace(Tail(s), c, by)

\* A value is true in Python's sense: neither None nor the empty string.
Truthy(v) == v # <<>> /\ v[1] # ""

\* Mutant: JENKINS_URL is not looked at.
get_jenkins_credentials_without_url(url, user, api_token) ==
    IF ~(Truthy(user) /\ Truthy(api_token)) THEN <<>> ELSE <<user[1], api_token[1]>>

\* get_jenkins_credentials over the module's three values: <<>> for None.
get_jenkins_credentials(url, user, api_token) ==
    IF ~(Truthy(url) /\ Truthy(user) /\ Truthy(api_token)) THEN <<>> ELSE <<user[1], api_token[1]>>

\* The job name with /job/ between folders.
JobPathOf(job_name) ==
    IF ~Contains(job_name, "/job/") /\ Contains(job_name, "/")
    THEN Replace(job_name, "/", "/job/") ELSE job_name

ConsoleTools == {"get_jenkins_console_log", "analyze_jenkins_build_errors", "get_jenkins_git_repositories"}
Tools == ConsoleTools \union {"get_jenkins_build_info"}

ApiUrl(t, base, job_name, build) ==
    base \o "/job/" \o job_name \o "/" \o build \o
        (IF t = "get_jenkins_build_info" THEN "/api/json" ELSE "/consoleText")

\* analyze_log_for_errors of main.py, as one function.
RECURSIVE AnalyzeFrom(_, _, _, _, _)
AnalyzeFrom(ls, w, idx, found, out) ==
    IF idx >= Len(ls) THEN out
    ELSE IF idx \in found \/ ~HasKeyword(ls[idx + 1]) THEN AnalyzeFrom(ls, w, idx + 1, found, out)
    ELSE LET start_index == StartIndex(idx, w)
             end_index == EndIndex(idx, w, Len(ls))
         IN  AnalyzeFrom(ls, w, idx + 1, found \cup (start_index..(end_index - 1)),
                         Append(out, Context(ls, start_index, end_index)))

analyze_log_for_errors(text, w) == AnalyzeFrom(SplitLines(text), w, 0, {}, <<>>)

\* extract_git_repositories of main.py, as one function.
RECURSIVE ExtractFrom(_, _, _, _, _)
RECURSIVE ExtractAt(_, _, _, _, _, _)
ExtractFrom(ls, idx, m, seen, repos) ==
    IF idx >= Len(ls) THEN repos
    ELSE ExtractAt(ls, idx, m, seen, repos, LineMatches(ls[idx + 1]))

\* From the m-th match on of line idx, whose matches are given.
ExtractAt(ls, idx, m, seen, repos, matches) ==
    IF m >= Len(matches) THEN ExtractFrom(ls, idx + 1, 0, seen, repos)
    ELSE IF matches[m + 1].url \in seen THEN ExtractFrom(ls, idx, m + 1, seen, repos)
    ELSE ExtractFrom(ls, idx, m + 1, seen \cup {matches[m + 1].url},
                     Append(repos, RepoInfo(ls, idx, matches[m + 1].url)))

extract_git_repositories(text) == ExtractFrom(SplitLines(text), 0, 0, {}, <<>>)

\* The environments: each variable unset, empty or set.
UrlChoices == {<<>>, <<"">>, <<"https://ci.example.com">>}
UserChoices == {<<>>, <<"">>, <<"ann">>}
TokenChoices == {<<>>, <<"">>, <<"t0k3n">>}
LogSizeChoices == {<<>>, <<"12">>}
WindowChoices == {<<>>, <<"1">>}

EnvOf(url, user, api_token, size, window) ==
    LET chosen == [k \in {"JENKINS_URL", "JENKINS_USER", "JENKINS_API_TOKEN", "MAX_LOG_SIZE",
                          "CONTEXT_WINDOW"} |->
                      CASE k = "JENKINS_URL" -> url
                        [] k = "JENKINS_USER" -> user
                        [] k = "JENKINS_API_TOKEN" -> api_token
                        [] k = "MAX_LOG_SIZE" -> size
                        [] k = "CONTEXT_WINDOW" -> window]
    IN  [k \in {n \in DOMAIN chosen : chosen[n] # <<>>} |-> chosen[k][1]]

ToolEnvirons ==
    { EnvOf(url, user, api_token, size, window) :
        url \in UrlChoices, user \in UserChoices, api_token \in TokenChoices,
        size \in LogSizeChoices, window \in WindowChoices }

JobNames == {"App", "Team/App", "Team/job/App"}
BuildNumbers == {"lastBuild", "12"}

\* What Jenkins answers: a status with a text, or no answer at all.
ConsoleTexts == {"", "ok", "Started\nStarted", "git clone https://h/o/a.git\nERROR: x\nStarted\nbranch: dev"}
ErrorStatuses == {401, 404, 500}
\* The fields of the build's JSON the tool reads: each present or not.
BuildJsons == [number : {<<>>, <<12>>}, result : {<<>>, <<"FAILURE">>}]

InitTools ==
    /\ environ \in ToolEnvirons
    /\ instance_order = <<>>
    /\ JENKINS_URL = <<>>
    /\ JENKINS_USER = <<>>
    /\ JENKINS_API_TOKEN = <<>>
    /\ MAX_LOG_SIZE = 0
    /\ CONTEXT_WINDOW = 0
    /\ tool = ""
    /\ arguments = <<>>
    /\ credentials = <<>>
    /\ requests = <<>>
    /\ tool_outcome = "none"
    /\ tool_result = <<>>
    /\ tpc = "import"
    /\ SnippetsIdle
    /\ UrlIdle
    /\ GitIdle

\* The module is loaded: its values are read from the environment, once.
LoadModule ==
    /\ tpc = "import"
    /\ JENKINS_URL' = <<GetEnvOr(environ, "JENKINS_URL", "https://jenkins.example.com")>>
    /\ JENKINS_USER' = GetEnvOrNone(environ, "JENKINS_USER")
    /\ JENKINS_API_TOKEN' = GetEnvOrNone(environ, "JENKINS_API_TOKEN")
    /\ MAX_LOG_SIZE' = ParseInt(GetEnvOr(environ, "MAX_LOG_SIZE", "250000"))
    /\ CONTEXT_WINDOW' = ParseInt(GetEnvOr(environ, "CONTEXT_WINDOW", "15"))
    /\ tpc' = "ready"
    /\ UNCHANGED <<tool, arguments, credentials, requests, tool_outcome, tool_result,
                   snipVars, urlVars, loadVars, gitVars>>

\* A tool is called without credentials: it raises before anything else.
ToolRefuse ==
    /\ tpc = "ready"
    /\ \E t \in Tools, job_name \in JobNames, build \in BuildNumbers :
          /\ get_jenkins_credentials(JENKINS_URL, JENKINS_USER, JENKINS_API_TOKEN) = <<>>
          /\ tool' = t
          /\ arguments' = [job_name |-> job_name, build_number |-> build]
          /\ credentials' = <<>>
          /\ tool_outcome' = "CredentialsNotConfigured"
          /\ tpc' = "done"
    /\ UNCHANGED <<JENKINS_URL, JENKINS_USER, JENKINS_API_TOKEN, MAX_LOG_SIZE, CONTEXT_WINDOW,
                   requests, tool_result, snipVars, urlVars, loadVars, gitVars>>

\* A tool is called with credentials: it builds the URL and sends the request.
ToolRequest ==
    /\ tpc = "ready"
    /\ \E t \in Tools, job_name \in JobNames, build \in BuildNumbers :
          /\ get_jenkins_credentials(JENKINS_URL, JENKINS_USER, JENKINS_API_TOKEN) # <<>>
          /\ tool' = t
          /\ arguments' = [job_name |-> JobPathOf(job_name), build_number |-> build]
          /\ credentials' = get_jenkins_credentials(JENKINS_URL, JENKINS_USER, JENKINS_API_TOKEN)
          /\ requests' = Append(requests,
                [url |-> ApiUrl(t, JENKINS_URL[1], JobPathOf(job_name), build),
                 auth |-> get_jenkins_credentials(JENKINS_URL, JENKINS_USER, JENKINS_API_TOKEN)])
          /\ tpc' = "awaiting"
    /\ UNCHANGED <<JENKINS_URL, JENKINS_USER, JENKINS_API_TOKEN, MAX_LOG_SIZE, CONTEXT_WINDOW,
                   tool_outcome, tool_result, snipVars, urlVars, loadVars, gitVars>>

\* The request fails: an error status, or no connection.
ToolHttpError ==
    /\ tpc = "awaiting"
    /\ \/ \E status_code \in ErrorStatuses :
             tool_outcome' = CASE status_code = 401 -> "AuthenticationFailed"
                               [] status_code = 404 -> "NotFound"
                               [] OTHER -> "HTTPError"
       \/ tool_outcome' = "NetworkError"
    /\ tpc' = "done"
    /\ UNCHANGED <<JENKINS_URL, JENKINS_USER, JENKINS_API_TOKEN, MAX_LOG_SIZE, CONTEXT_WINDOW,
                   tool, arguments, credentials, requests, tool_result,
                   snipVars, urlVars, loadVars, gitVars>>

\* get_jenkins_console_log: the text, whole.
ConsoleLogReturn ==
    /\ tpc = "awaiting"
    /\ tool = "get_jenkins_console_log"
    /\ \E text \in ConsoleTexts :
          tool_result' = IF text = "" THEN [kind |-> "empty"]
                         ELSE [kind |-> "console_log", job_name |-> arguments.job_name,
                               build_number |-> arguments.build_number,
                               characters |-> Len(text), body |-> text]
    /\ tool_outcome' = "returned"
    /\ tpc' = "done"
    /\ UNCHANGED <<JENKINS_URL, JENKINS_USER, JENKINS_API_TOKEN, MAX_LOG_SIZE, CONTEXT_WINDOW,
                   tool, arguments, credentials, requests, snipVars, urlVars, loadVars, gitVars>>

\* analyze_jenkins_build_errors: a small log whole, of a large one the snippets.
AnalyzeReturn ==
    /\ tpc = "awaiting"
    /\ tool = "analyze_jenkins_build_errors"
    /\ \E text \in ConsoleTexts : \E found \in {analyze_log_for_errors(text, CONTEXT_WINDOW)} :
          LET head == [job_name |-> arguments.job_name, build_number |-> arguments.build_number,
                       characters |-> Len(text)]
          IN  tool_result' =
                 IF text = "" THEN [kind |-> "empty"]
                 ELSE IF Len(text) < MAX_LOG_SIZE
                      THEN [kind |-> "full_log", head |-> head, body |-> text]
                 ELSE IF found = <<>> THEN [kind |-> "no_snippets", head |-> head]
                 ELSE [kind |-> "snippets", head |-> head, count |-> Len(found),
                       body |-> Join(found, "\n\n--- SNIPPET DELIMITER ---\n\n")]
    /\ tool_outcome' = "returned"
    /\ tpc' = "done"
    /\ UNCHANGED <<JENKINS_URL, JENKINS_USER, JENKINS_API_TOKEN, MAX_LOG_SIZE, CONTEXT_WINDOW,
                   tool, arguments, credentials, requests, snipVars, urlVars, loadVars, gitVars>>

\* get_jenkins_git_repositories: the records found in the text.
GitRepositoriesReturn ==
    /\ tpc = "awaiting"
    /\ tool = "get_jenkins_git_repositories"
    /\ \E text \in ConsoleTexts : \E repos \in {extract_git_repositories(text)} :
          LET head == [job_name |-> arguments.job_name, build_number |-> arguments.build_number]
          IN  tool_result' =
                 IF text = "" THEN [kind |-> "empty"]
                 ELSE IF repos = <<>> THEN [kind |-> "no_repositories", head |-> head]
                 ELSE [kind |-> "repositories", head |-> head, count |-> Len(repos),
                       body |-> repos]
    /\ tool_outcome' = "returned"
    /\ tpc' = "done"
    /\ UNCHANGED <<JENKINS_URL, JENKINS_USER, JENKINS_API_TOKEN, MAX_LOG_SIZE, CONTEXT_WINDOW,
                   tool, arguments, credentials, requests, snipVars, urlVars, loadVars, gitVars>>

\* get_jenkins_build_info: number and status of the build, with their defaults.
BuildInfoReturn ==
    /\ tpc = "awaiting"
    /\ tool = "get_jenkins_build_info"
    /\ \E build_info \in BuildJsons :
          tool_result' =
             [kind |-> "build_info", job_name |-> arguments.job_name,
              number |-> IF build_info.number # <<>> THEN ToString(build_info.number[1])
                         ELSE arguments.build_number,
              status |-> IF build_info.result # <<>> THEN build_info.result[1] ELSE "IN_PROGRESS"]
    /\ tool_outcome' = "returned"
    /\ tpc' = "done"
    /\ UNCHANGED <<JENKINS_URL, JENKINS_USER, JENKINS_API_TOKEN, MAX_LOG_SIZE, CONTEXT_WINDOW,
                   tool, arguments, credentials, requests, snipVars, urlVars, loadVars, gitVars>>

NextTools ==
    \/ LoadModule \/ ToolRefuse \/ ToolRequest \/ ToolHttpError
    \/ ConsoleLogReturn \/ AnalyzeReturn \/ GitRepositoriesReturn \/ BuildInfoReturn

SpecTools == InitTools /\ [][NextTools]_vars

----------------------------------------------------------------------------
(* Properties of analyze_log_for_errors *)

\* The failure keywords as the specification lists them.
FailureKeywords == {"error", "exception", "failed", "failure", "traceback", "fatal"}

\* The line contains a failure keyword, case-insensitively.
MentionsFailure(line) == \E kw \in FailureKeywords : Contains(Lower(line), kw)

\* The indices of the keyword lines of the log.
KeywordIdx == {k \in 0..(Len(lines) - 1) : MentionsFailure(lines[k + 1])}

\* The lines of snippet k are the lines [start, end) of the log.
SpanIsSnippet(k) == snippets[k] = Join(SubSeq(lines, spans[k].start + 1, spans[k].end), "\n")

\* C1 (as claimed): every returned snippet covers a line range inside
\* [0, lineCount), and no line index belongs to two returned snippets.
C1_RangesDisjoint ==
    pc = "done" =>
        /\ Len(spans) = Len(snippets)
        /\ \A k \in 1..Len(spans) :
              /\ 0 <= spans[k].start /\ spans[k].start < spans[k].end
              /\ spans[k].end <= Len(lines)
              /\ SpanIsSnippet(k)
        /\ \A k, m \in 1..Len(spans) :
              k < m => (spans[k].start..(spans[k].end - 1))
                         \cap (spans[m].start..(spans[m].end - 1)) = {}

C3_SingleTrigger ==
    (pc = "done" /\ Cardinality(KeywordIdx) = 1) =>
        \A a \in KeywordIdx :
            /\ Len(snippets) = 1
            /\ snippets[1] =
                 Join([k \in 1..(Min(Len(lines), a + context_window + 1)
                                  - Max(0, a - context_window)) |->
                          lines[Max(0, a - context_window) + k]], "\n")

\* One keyword line whose window of w >= 1 lines a side lies inside the log.
C3_Witness ==
    /\ pc = "done"
    /\ Cardinality(KeywordIdx) = 1
    /\ Len(snippets) = 1
    /\ \E a \in KeywordIdx :
          /\ a - context_window > 0
          /\ a + context_window + 1 < Len(lines)
          /\ context_window >= 1

\* C4: the result is empty exactly when no line of the log contains a keyword
\* (case-insensitively), the empty log included; the scan has no failing
\* step: its index stays inside the log until it returns.
C4_EmptyIffNoKeyword ==
    /\ pc = "done" => (snippets = <<>> <=> KeywordIdx = {})
    /\ (pc = "done" /\ console_log = "") => snippets = <<>>
    /\ pc \in {"scan", "done"} => i \in 0..Len(lines)
    /\ pc = "done" => i = Len(lines)

\* A log of several lines, none with a keyword, has given no snippet.
C4_Witness ==
    /\ pc = "done"
    /\ Len(lines) >= 2
    /\ KeywordIdx = {}
    /\ snippets = <<>>

\* Line j lies in the window of a snippet emitted for an earlier line.
InEarlierWindow(j) ==
    \E k \in 1..Len(spans) : spans[k].at < j /\ spans[k].start <= j /\ j < spans[k].end

\* C5: during the scan, a keyword line j emits a snippet iff j is not inside
\* the window of a snippet emitted for an earlier line; the snippets are as
\* many as such lines, in scan order.
C5_EmitIffOutsideEarlierWindow ==
    pc \in {"scan", "done"} =>
        LET scanned == {j \in KeywordIdx : j < i}
            emitting == {j \in scanned : ~InEarlierWindow(j)}
        IN  /\ \A j \in scanned : (\E k \in 1..Len(spans) : spans[k].at = j) <=> j \in emitting
            /\ {spans[k].at : k \in 1..Len(spans)} = emitting
            /\ Len(snippets) = Cardinality(emitting)
            /\ Len(spans) = Len(snippets)
            /\ \A k, m \in 1..Len(spans) : k < m => spans[k].at < spans[m].at
            /\ (pc = "done" /\ context_window = 1 /\ KeywordIdx = {1, 3, 5})
                  => Len(snippets) = 3
            /\ (pc = "done" /\ context_window = 5 /\ KeywordIdx = {1, 3})
                  => Len(snippets) = 1

\* A keyword line was skipped inside an earlier window, and a later keyword
\* line outside every earlier window emitted a second snippet.
C5_Witness ==
    /\ pc = "done"
    /\ Len(snippets) = 2
    /\ \E j \in KeywordIdx : InEarlierWindow(j)
    /\ Cardinality(KeywordIdx) = 3

----------------------------------------------------------------------------
(* Properties of detect_jenkins_instance and extract_job_path_and_build *)

\* The job-path segments of a token list: each token that follows a "job"
\* token met by a left-to-right walk that steps over the pair.
RECURSIVE PairedNames(_)
PairedNames(ts) ==
    IF ts = <<>> THEN <<>>
    ELSE IF ts[1] = "job" /\ Len(ts) >= 2
         THEN <<ts[2]>> \o PairedNames(SubSeq(ts, 3, Len(ts)))
         ELSE PairedNames(Tail(ts))

\* extract_job_path_and_build has run on the URL (the instance was matched).
Walking == rpc = "walk" \/ (rpc = "done" /\ jenkins_base_url # "")

Returned == rpc = "done" /\ outcome = "ok"

\* C6: the walk appends the token after each "job" token it stands on and
\* steps over both; the returned jobPath is those segments joined by "/job/".
C6_JobPathIsPairedNames ==
    /\ Walking => job_parts = PairedNames(SubSeq(parts, 1, cur))
    /\ Returned => result[1] = Join(PairedNames(parts), "/job/")
    /\ (Returned /\ job_url = "https://ci.example.com/job/Team/job/App/123")
          => result[1] = "Team/job/App"

\* A nested job path whose first name is itself the token "job" was returned.
C6_Witness ==
    /\ Returned
    /\ Len(job_parts) = 2
    /\ job_parts[1] = "job"
    /\ result[1] = "job/job/App"

\* The token is a build identifier: all digits, or one of the four aliases.
IsBuildId(t) ==
    \/ t \in {"lastBuild", "lastSuccessfulBuild", "lastFailedBuild", "lastCompletedBuild"}
    \/ (Len(t) >= 1 /\ \A k \in 1..Len(t) : \E d \in 0..9 : CharAt(t, k) = ToString(d))

\* The indices of the build-identifier tokens not consumed in a (job, name) pair.
FreeBuildTokens == {k \in 0..(Len(parts) - 1) : k \notin consumed /\ IsBuildId(parts[k + 1])}

\* C7: the returned buildId is the last build-identifier token outside the
\* (job, name) pairs, "lastBuild" if there is none; it is always all digits or
\* an alias.
C7_BuildIdIsLastFreeToken ==
    Returned =>
        /\ result[2] = IF FreeBuildTokens = {} THEN "lastBuild"
                       ELSE parts[(CHOOSE k \in FreeBuildTokens :
                                      \A m \in FreeBuildTokens : m <= k) + 1]
        /\ IsBuildId(result[2])
        /\ (job_url = "https://ci.example.com/job/App/lastSuccessfulBuild/consoleText")
              => result = <<"App", "lastSuccessfulBuild">>

\* Two different free build tokens, and a digit token consumed as a job name.
C7_Witness ==
    /\ Returned
    /\ \E a, b \in FreeBuildTokens : a < b /\ parts[a + 1] # parts[b + 1]
    /\ \E k \in consumed : IsBuildId(parts[k + 1])

\* C8 (as claimed): every returned jobPath is non-empty.
C8_JobPathNonEmpty == Returned => result[1] # ""

\* C9: the job-path-not-found error is raised exactly when the walk consumed
\* no (job, name) pair, and then nothing is returned; otherwise a
\* (jobPath, buildId) pair is returned.
C9_NotFoundIffNoPair ==
    (rpc = "done" /\ jenkins_base_url # "") =>
        /\ outcome = "JobPathNotFound" <=> consumed = {}
        /\ outcome = "JobPathNotFound" => result = <<>>
        /\ consumed # {} => (outcome = "ok" /\ Len(result) = 2)
        /\ outcome \in {"JobPathNotFound", "ok"}

\* A path of several tokens, a trailing "job" among them, gave the error.
C9_Witness ==
    /\ rpc = "done"
    /\ outcome = "JobPathNotFound"
    /\ Len(parts) >= 2
    /\ parts[Len(parts)] = "job"

\* p is a prefix of s.
IsPrefix(p, s) == Len(p) <= Len(s) /\ \A k \in 1..Len(p) : CharAt(p, k) = CharAt(s, k)

HasHttpScheme(u) == IsPrefix("http://", u) \/ IsPrefix("https://", u)

\* C10: detect_jenkins_instance fails with NoInstancesConfigured on an empty
\* registry whatever the URL, else with InvalidUrlFormat on a URL without an
\* http(s) scheme, else with NoMatchingInstance exactly when no base URL is a
\* prefix of the URL, and succeeds otherwise.
C10_DetectPrecedence ==
    rpc # "detect" =>
        LET matches == \E k \in 1..Len(configs) : IsPrefix(configs[k], job_url)
            detected == outcome \notin {"NoInstancesConfigured", "InvalidUrlFormat",
                                         "NoMatchingInstance"}
        IN  /\ configs = <<>> => outcome = "NoInstancesConfigured"
            /\ (configs # <<>> /\ ~HasHttpScheme(job_url)) => outcome = "InvalidUrlFormat"
            /\ (configs # <<>> /\ HasHttpScheme(job_url))
                  => (outcome = "NoMatchingInstance" <=> ~matches)
            /\ (configs # <<>> /\ HasHttpScheme(job_url) /\ matches)
                  => (detected /\ jenkins_base_url \in {configs[k] : k \in 1..Len(configs)})
            /\ ~detected => (rpc = "done" /\ result = <<>> /\ jenkins_base_url = "")

\* An empty registry and a URL without an http(s) scheme: NoInstancesConfigured.
C10_Witness ==
    /\ rpc = "done"
    /\ configs = <<>>
    /\ ~HasHttpScheme(job_url)
    /\ outcome = "NoInstancesConfigured"

\* detect_jenkins_instance returned an instance.
Detected == rpc \in {"split", "walk", "done"} /\ jenkins_base_url # ""

\* C11: the returned base URL is a prefix of the job URL and is the first
\* registry entry, in iteration order, that is one; a later entry that is a
\* prefix too, even a longer one, is not returned.
C11_FirstPrefixWins ==
    Detected =>
        /\ IsPrefix(jenkins_base_url, job_url)
        /\ \E k \in 1..Len(configs) :
              /\ configs[k] = jenkins_base_url
              /\ \A m \in 1..(k - 1) : ~IsPrefix(configs[m], job_url)

\* Two entries are prefixes of the job URL, the longer one comes second, and
\* the first, shorter one was returned.
C11_Witness ==
    /\ Detected
    /\ Len(configs) = 2
    /\ IsPrefix(configs[1], job_url) /\ IsPrefix(configs[2], job_url)
    /\ Len(configs[2]) > Len(configs[1])
    /\ jenkins_base_url = configs[1]

(* The position of the matched base URL in the job URL *)

\* In url the prefix base ends at a path boundary: the URL ends there or goes
\* on with "/".
EndsAtBoundary(base, url) ==
    /\ IsPrefix(base, url)
    /\ Len(url) > Len(base) => CharAt(url, Len(base) + 1) = "/"

\* C22 (as claimed): whenever resolution succeeds, the matched base URL is
\* followed in the job URL by "/" or by the end of the URL, so a URL of another
\* host that merely extends a base URL as a string is resolved to no instance.
C22_MatchEndsAtBoundary ==
    Returned => EndsAtBoundary(jenkins_base_url, job_url)

----------------------------------------------------------------------------
(* Size and coverage of the snippets *)

\* The number of log lines a snippet holds: its lines are joined by "\n".
SnippetLineCount(t) == 1 + Cardinality({k \in 1..Len(t) : CharAt(t, k) = "\n"})

RECURSIVE TotalSnippetLines(_)
TotalSnippetLines(ss) ==
    IF ss = <<>> THEN 0 ELSE SnippetLineCount(ss[1]) + TotalSnippetLines(Tail(ss))

\* C19 (as claimed): the snippets returned for a log hold, taken together, at
\* most as many lines as the log.
C19_TotalLinesAtMostLog ==
    pc = "done" => TotalSnippetLines(snippets) <= Len(lines)

\* C20: every line with a failure keyword lies in the line range of a returned
\* snippet, and that snippet's text holds the line; during the scan this is so
\* for every keyword line already passed.
C20_KeywordLinesCovered ==
    pc \in {"scan", "done"} =>
        \A j \in KeywordIdx :
            j < i => \E k \in 1..Len(spans) :
                        /\ k <= Len(snippets)
                        /\ spans[k].start <= j /\ j < spans[k].end
                        /\ SpanIsSnippet(k)
                        /\ SplitLines(snippets[k])[j - spans[k].start + 1] = lines[j + 1]

\* A keyword line that emitted no snippet of its own (it was skipped as found)
\* and a keyword line right after the end of a window that emitted one.
C20_Witness ==
    /\ pc = "done"
    /\ \E j \in KeywordIdx : \A k \in 1..Len(spans) : spans[k].at # j
    /\ \E j \in KeywordIdx : \E k \in 1..Len(spans) : spans[k].end = j

(* The order and the overlap of the returned snippets *)

\* The line indices of the k-th returned snippet.
SpanLines(k) == spans[k].start..(spans[k].end - 1)

\* The returned snippets whose range holds line index x.
SnippetsHolding(x) == {k \in 1..Len(spans) : x \in SpanLines(k)}

\* C21: in output order the returned snippets have strictly increasing start
\* indices and strictly increasing end indices; two consecutive snippets share
\* at most context_window lines, two snippets that are not consecutive share
\* none, and every line index belongs to at most two snippets.
C21_OrderedBoundedOverlap ==
    pc = "done" =>
        /\ Len(spans) = Len(snippets)
        /\ \A k \in 1..Len(spans) : SpanIsSnippet(k)
        /\ \A k \in 1..(Len(spans) - 1) :
              /\ spans[k].start < spans[k + 1].start
              /\ spans[k].end < spans[k + 1].end
              /\ Cardinality(SpanLines(k) \cap SpanLines(k + 1)) <= context_window
        /\ \A k, m \in 1..Len(spans) :
              k + 1 < m => SpanLines(k) \cap SpanLines(m) = {}
        /\ \A x \in 0..(Len(lines) - 1) : Cardinality(SnippetsHolding(x)) <= 2

\* Three snippets were returned, each two consecutive ones share exactly
\* context_window >= 1 lines, and a line index lies in two of them.
C21_Witness ==
    /\ pc = "done"
    /\ context_window >= 1
    /\ Len(spans) = 3
    /\ Len(snippets) = 3
    /\ \A k \in 1..2 : Cardinality(SpanLines(k) \cap SpanLines(k + 1)) = context_window
    /\ \E x \in 0..(Len(lines) - 1) : Cardinality(SnippetsHolding(x)) = 2

----------------------------------------------------------------------------
(* Properties of load_jenkins_configurations with detect_jenkins_instance *)

\* What detect_jenkins_instance gives on a registry: the error, or the matched
\* base URL with its credentials.
Selection(url, d) ==
    IF DetectOutcome(url, d.keys) = "matched"
    THEN <<d.keys[FirstMatch(url, d.keys)], d.vals[FirstMatch(url, d.keys)]>>
    ELSE <<DetectOutcome(url, d.keys)>>

\* C12 (as claimed): for the same environment and job URL the selected
\* instance is the same whatever the order in which the named instances are
\* iterated.
C12_SelectionIndependentOfOrder ==
    rpc \in {"detect", "split", "walk", "done"} =>
        \A o \in Orders(InstanceNames(environ)) :
            Selection(job_url, LoadResult(environ, o))
              = Selection(job_url, [keys |-> configs, vals |-> config_of])

----------------------------------------------------------------------------
(* Properties of extract_git_repositories *)

RecordUrls == {repositories[k].url : k \in 1..Len(repositories)}

\* C13: the output never holds two records with the same url: after every
\* step of the scan the urls of the records are pairwise distinct and are
\* exactly the urls of the seen set.
C13_UrlsDistinctAndSeen ==
    /\ \A j, k \in 1..Len(repositories) : j # k => repositories[j].url # repositories[k].url
    /\ RecordUrls = seen_urls

\* The scan is over, it recorded two urls and skipped a repeated one.
C13_Witness == gpc = "done" /\ Len(repositories) >= 2 /\ dropped # {}

\* The lines (from 0) on which some pattern finds the url.
LinesWith(url) ==
    {j \in 0..(Len(git_lines) - 1) :
        \E m \in 1..Len(LineMatches(git_lines[j + 1])) : LineMatches(git_lines[j + 1])[m].url = url}

\* C14: the first occurrence of a url wins: at every point the record of a
\* url holds the branch and commit of the window around the first line the
\* url occurs on, whatever later occurrences of the url were met since.
C14_FirstOccurrenceWins ==
    \A k \in 1..Len(repositories) :
        LET first == Least(LinesWith(repositories[k].url))
        IN  /\ accepted[k].line = first
            /\ repositories[k] = RepoInfo(git_lines, first, repositories[k].url)

\* A url was met again on a line whose window has a branch, and its record
\* has none.
C14_Witness ==
    /\ gpc = "done"
    /\ \E d \in dropped : \E k \in 1..Len(repositories) :
          /\ repositories[k].url = d.url
          /\ repositories[k].branch = <<>>
          /\ RepoInfo(git_lines, d.line, d.url).branch # <<>>

\* The window [max(0, i - 5), min(n, i + 6)) of line i.
Window(idx) == Max(0, idx - 5)..(Min(Len(git_lines), idx + 6) - 1)

CommitLinesIn(W) == {j \in W : CommitMatch(git_lines[j + 1]) # <<>>}
AcceptedBranchLinesIn(W) ==
    {j \in W : BranchMatch(git_lines[j + 1]) # <<>> /\ BranchMatch(git_lines[j + 1])[2]}

\* C15: the record of a url accepted on line i takes its commit from the
\* lowest window line matching the commit pattern and its branch from the
\* lowest window line whose branch match is accepted, and has none when the
\* window has no such line; lines outside the window play no part.
C15_EnrichedFromWindow ==
    \A k \in 1..Len(repositories) :
        LET W == Window(accepted[k].line)
            cs == CommitLinesIn(W)
            bs == AcceptedBranchLinesIn(W)
        IN  /\ repositories[k].commit =
                  IF cs = {} THEN <<>> ELSE CommitMatch(git_lines[Least(cs) + 1])
            /\ repositories[k].branch =
                  IF bs = {} THEN <<>> ELSE <<BranchMatch(git_lines[Least(bs) + 1])[1]>>

OutsideWindow(idx) == (0..(Len(git_lines) - 1)) \ Window(idx)

\* A record with the commit of a line of its window and without branch, though
\* a line outside its window has an accepted one.
C15_Witness ==
    /\ gpc = "done"
    /\ \E k \in 1..Len(repositories) :
          /\ repositories[k].commit # <<>>
          /\ repositories[k].branch = <<>>
          /\ AcceptedBranchLinesIn(OutsideWindow(accepted[k].line)) # {}

\* The candidate of a line is rejected: one of the four values, on a line
\* without 'branch' in any case.
Rejected(line) ==
    /\ BranchMatch(line)[1] \in {"true", "false", "master", "main"}
    /\ ~Contains(Lower(line), "branch")

\* C16: a branch candidate is rejected exactly when it is 'true', 'false',
\* 'master' or 'main' on a line without 'branch': the branch of a record is
\* the candidate of the first window line whose candidate is not rejected so,
\* and is empty when every candidate of the window is.
C16_RejectedIffReservedWithoutKeyword ==
    \A k \in 1..Len(repositories) :
        LET W == Window(accepted[k].line)
            kept == {j \in W : BranchMatch(git_lines[j + 1]) # <<>> /\ ~Rejected(git_lines[j + 1])}
        IN  repositories[k].branch =
               IF kept = {} THEN <<>> ELSE <<BranchMatch(git_lines[Least(kept) + 1])[1]>>

\* A record took 'main' from a line with 'branch' on it, after a line of its
\* window whose 'main' was rejected.
C16_Witness ==
    /\ gpc = "done"
    /\ \E k \in 1..Len(repositories) :
          /\ repositories[k].branch = <<"main">>
          /\ \E j \in Window(accepted[k].line) :
                /\ BranchMatch(git_lines[j + 1]) # <<>>
                /\ BranchMatch(git_lines[j + 1])[1] = "main"
                /\ Rejected(git_lines[j + 1])

\* a comes before b in the scan: by line, then pattern, then position.
ScannedBefore(a, b) ==
    \/ a.line < b.line
    \/ a.line = b.line /\ a.pat < b.pat
    \/ a.line = b.line /\ a.pat = b.pat /\ a.pos < b.pos

\* Every match of the log with its place, as [url, line, pat, pos].
AllMatches ==
    UNION { { [url |-> LineMatches(git_lines[j + 1])[m].url, line |-> j,
               pat |-> LineMatches(git_lines[j + 1])[m].pat,
               pos |-> LineMatches(git_lines[j + 1])[m].pos] :
                 m \in 1..Len(LineMatches(git_lines[j + 1])) } : j \in 0..(Len(git_lines) - 1) }

InAcceptanceOrder ==
    /\ Len(accepted) = Len(repositories)
    /\ \A k \in 1..Len(repositories) :
          \* the record stands at the first match of its url
          /\ \E a \in AllMatches :
                /\ a.url = repositories[k].url
                /\ <<a.line, a.pat, a.pos>> = <<accepted[k].line, accepted[k].pat, accepted[k].pos>>
                /\ \A b \in AllMatches : b.url = a.url /\ b # a => ScannedBefore(a, b)
          /\ \A j \in 1..(k - 1) :
                /\ accepted[j].line <= accepted[k].line
                /\ ScannedBefore(accepted[j], accepted[k])

\* C17: the records are in the order of first acceptance: first-occurrence
\* lines never decrease along the list, within a line records follow pattern
\* priority and then match position, and no step reorders or removes a record.
C17_AcceptanceOrder ==
    /\ []InAcceptanceOrder
    /\ [][/\ Len(repositories') >= Len(repositories)
          /\ SubSeq(repositories', 1, Len(repositories)) = repositories]_vars

\* Two records of one line, the first from a match further right than the
\* second, and a record of a later line.
C17_Witness ==
    /\ gpc = "done"
    /\ \E j, k \in 1..Len(repositories) :
          /\ j < k
          /\ accepted[j].line = accepted[k].line
          /\ accepted[j].pos > accepted[k].pos
          /\ \E n \in 1..Len(repositories) : accepted[n].line > accepted[k].line

----------------------------------------------------------------------------
(* Properties of get_jenkins_credentials and the tools *)

NonEmpty(v) == v # <<>> /\ v # <<"">>

AllConfigured == NonEmpty(JENKINS_URL) /\ NonEmpty(JENKINS_USER) /\ NonEmpty(JENKINS_API_TOKEN)

\* C18: a tool gets the pair (user, token) exactly when the module's
\* JENKINS_URL, JENKINS_USER and JENKINS_API_TOKEN are all non-empty, and None
\* otherwise; with None the tool, whichever of the four it is, ends with the
\* credentials-not-configured error and no HTTP request has been sent.
C18_CredentialsGateTools ==
    tpc \in {"awaiting", "done"} =>
        /\ AllConfigured => credentials = <<JENKINS_USER[1], JENKINS_API_TOKEN[1]>>
        /\ ~AllConfigured => credentials = <<>>
        /\ credentials = <<>> =>
              /\ tool \in Tools
              /\ tpc = "done"
              /\ tool_outcome = "CredentialsNotConfigured"
              /\ requests = <<>>
        /\ credentials # <<>> => Len(requests) = 1 /\ requests[1].auth = credentials

\* User and token are set, JENKINS_URL is empty, and a tool has refused.
C18_Witness ==
    /\ tpc = "done"
    /\ tool = "get_jenkins_build_info"
    /\ JENKINS_URL = <<"">>
    /\ NonEmpty(JENKINS_USER)
    /\ NonEmpty(JENKINS_API_TOKEN)
    /\ tool_outcome = "CredentialsNotConfigured"

====
